---- MODULE Spec2Model ----
(***************************************************************************)
(* CelebAMask-HQ-Ellipse: the ellipse codec (utils.py), the ellipse fitter *)
(* (extractor.py), the extraction worker (workers.py), the parallel batch  *)
(* runner (parallel.py) and the extract subcommand (run.py).               *)
(*                                                                         *)
(* Six specifications share the module:                                    *)
(*   CodecSpec   save_ellipse / load_ellipse on descriptors and files      *)
(*   FitSpec     fit_ellipse on contour lists                              *)
(*   WorkerSpec  one extract_worker call on every kind of input            *)
(*   Spec        one cmd_extract run: run_parallel over extract_worker     *)
(*   RunsSpec    several cmd_extract runs on the same output directory     *)
(*   FairSpec    Spec with the pool's and the consumer's progress          *)
(***************************************************************************)
EXTENDS Integers, Sequences, FiniteSets, TLC

VARIABLES
    \* ---- codec (utils.py) ----
    cpc,        \* "start" | "saved" | "other" | "loaded" | "loaded_other"
    cdesc,      \* the descriptor handed to save_ellipse
    cfile,      \* the bytes of the record file ("nofile" before it exists)
    cloaded,    \* what load_ellipse returned or raised ("none" before the call)
    \* ---- fitter (extractor.py) ----
    fpc,        \* "start" | "called"
    fcontours,  \* what cv2.findContours yields for the mask
    fresult,    \* what fit_ellipse returned or raised ("none" before the call)
    \* ---- one extract_worker call (workers.py) ----
    wpc,        \* "start" | "called"
    witem,      \* the work item
    winput,     \* what the item's paths hold and which system call fails
    wresult,    \* what the call returned or raised, and what it wrote
    \* ---- cmd_extract / run_parallel (run.py, parallel.py) ----
    inputs,     \* the dataset: per image index, what its paths hold
    pc,         \* "idle" | "running" | "returned" | "done"
    runs,       \* cmd_extract runs started so far
    cfg,        \* the configuration of the current run
    work,       \* work: the list of items of the current run
    future_to_item, \* run_parallel's dict: future -> item (futures are 1, 2, ...)
    futures,    \* per submitted future: its state and its outcome
    consumed,   \* the futures as_completed has yielded so far
    progress,   \* tqdm's counter (n) of consumed completions
    results,    \* run_parallel's results list
    failed,     \* run_parallel's failed list
    files,      \* the record files of the output directory: path -> bytes
    artifacts,  \* the oval-mask and overlay files written
    failedJson, \* failed.json: NoFile, or File(the JSON array in it)
    executed,   \* history: how often each future of the run was started
    writers,    \* history: per path, the futures of the run that wrote it
    history     \* history: the failed indices of every finished run, in order

codecVars  == <<cpc, cdesc, cfile, cloaded>>
fitVars    == <<fpc, fcontours, fresult>>
workerVars == <<wpc, witem, winput, wresult>>
runVars    == <<pc, runs, cfg, work, future_to_item, futures, consumed, progress, results, failed>>
diskVars   == <<files, artifacts, failedJson>>
histVars   == <<executed, writers>>
batchVars  == <<inputs, runVars, diskVars, histVars, history>>
vars       == <<codecVars, fitVars, workerVars, batchVars>>

-----------------------------------------------------------------------------
(* Bounds of the model. *)

\* Bytes that may follow a whole record in a file handed to load_ellipse.
MaxExtraBytes == 2
\* Contours in one mask.
MaxContours == 3

-----------------------------------------------------------------------------
(* IEEE-754 single precision values, held as sign / biased exponent /      *)
(* fraction so that the 32 bits never leave TLC's integer range.            *)

F32(s, e, f) == [s |-> s, e |-> e, f |-> f]

\* F(e), with e evaluated once, as a local variable of the code is.
With(e, F(_)) == CHOOSE r \in {F(x) : x \in {e}} : TRUE

Zero     == F32(0, 0, 0)            \* 0.0     00 00 00 00
Half     == F32(0, 126, 0)          \* 0.5     3F 00 00 00
NegDeg90 == F32(1, 133, 3407872)    \* -90.0   C2 B4 00 00
Px256_5  == F32(0, 135, 16384)      \* 256.5   43 80 40 00

SampleF32 == {Zero, NegDeg90, Px256_5}

\* struct.pack("!f", v): the four bytes of v, most significant first.
PackBE(v) ==
    << v.s * 128 + (v.e \div 2),
       (v.e % 2) * 128 + (v.f \div 65536),
       (v.f \div 256) % 256,
       v.f % 256 >>

\* struct.unpack("!f", b): the value whose four bytes are b, most significant first.
UnpackBE(b) ==
    F32(b[1] \div 128,
        (b[1] % 128) * 2 + (b[2] \div 128),
        (b[2] % 128) * 65536 + b[3] * 256 + b[4])

\* struct.calcsize("!5f")
ELLIPSE_FMT_SIZE == 20

ELLIPSE_KEYS == <<"center_x", "center_y", "major_axis", "minor_axis", "rotation_angle">>

KeySet == {ELLIPSE_KEYS[i] : i \in 1..Len(ELLIPSE_KEYS)}

\* struct.pack("!5f", a, b, c, d, e)
StructPack5(vals) ==
    PackBE(vals[1]) \o PackBE(vals[2]) \o PackBE(vals[3]) \o PackBE(vals[4]) \o PackBE(vals[5])

\* struct.unpack("!5f", data): raises struct.error unless data is 20 bytes long.
StructUnpack5(data) ==
    IF Len(data) # ELLIPSE_FMT_SIZE
    THEN [ok |-> FALSE, exc |-> "struct.error"]
    ELSE [ok |-> TRUE,
          vals |-> [i \in 1..5 |-> UnpackBE(SubSeq(data, 4 * i - 3, 4 * i))]]

\* A faulty variant of save_ellipse: major_axis and minor_axis packed in the other order.
save_ellipse_swapped(ellipse_params) ==
    StructPack5(<< ellipse_params["center_x"],
                   ellipse_params["center_y"],
                   ellipse_params["minor_axis"],
                   ellipse_params["major_axis"],
                   ellipse_params["rotation_angle"] >>)

\* save_ellipse: the bytes written to the file at `path`.
save_ellipse(ellipse_params) ==
    StructPack5(<< ellipse_params["center_x"],
                   ellipse_params["center_y"],
                   ellipse_params["major_axis"],
                   ellipse_params["minor_axis"],
                   ellipse_params["rotation_angle"] >>)

\* f.read(20): at most the first 20 bytes of the file.
Read20(file) == SubSeq(file, 1, IF Len(file) < 20 THEN Len(file) ELSE 20)

\* dict(zip(ELLIPSE_KEYS, vals))
DictZip(keys, vals) ==
    [k \in {keys[i] : i \in 1..Len(keys)} |->
        vals[CHOOSE i \in 1..Len(keys) : keys[i] = k]]

\* load_ellipse: the dict it returns, or the error struct.unpack raises.
load_ellipse(file) ==
    LET u == StructUnpack5(Read20(file))
    IN  IF u.ok THEN [ok |-> TRUE, dict |-> DictZip(ELLIPSE_KEYS, u.vals)]
        ELSE u

-----------------------------------------------------------------------------
(* CodecSpec: a descriptor is saved, the file may be replaced by one of     *)
(* another length (a truncated or an extended record), and it is loaded.    *)

Descriptors == [KeySet -> SampleF32]

PadBytes == {0, 255}

CodecInit ==
    /\ cpc = "start"
    /\ cdesc \in Descriptors
    /\ cfile = "nofile"
    /\ cloaded = "none"

CodecIdle ==
    /\ cpc = "off"
    /\ cdesc = "none"
    /\ cfile = "nofile"
    /\ cloaded = "none"

CodecSave ==
    /\ cpc = "start"
    /\ cfile' = save_ellipse(cdesc)
    /\ cpc' = "saved"
    /\ UNCHANGED <<cdesc, cloaded>>
    /\ UNCHANGED <<fitVars, workerVars, batchVars>>

\* The file on disk is cut to its first n bytes.
CodecTruncate ==
    /\ cpc = "saved"
    /\ \E k \in 0..(Len(cfile) - 1) : cfile' = SubSeq(cfile, 1, k)
    /\ cpc' = "other"
    /\ UNCHANGED <<cdesc, cloaded>>
    /\ UNCHANGED <<fitVars, workerVars, batchVars>>

\* Bytes are appended to the file on disk.
CodecExtend ==
    /\ cpc \in {"saved", "other"}
    /\ Len(cfile) >= ELLIPSE_FMT_SIZE
    /\ Len(cfile) < ELLIPSE_FMT_SIZE + MaxExtraBytes
    /\ \E b \in PadBytes : cfile' = Append(cfile, b)
    /\ cpc' = "other"
    /\ UNCHANGED <<cdesc, cloaded>>
    /\ UNCHANGED <<fitVars, workerVars, batchVars>>

CodecLoad ==
    /\ cpc \in {"saved", "other"}
    /\ cloaded' = load_ellipse(cfile)
    /\ cpc' = IF cpc = "saved" THEN "loaded" ELSE "loaded_other"
    /\ UNCHANGED <<cdesc, cfile>>
    /\ UNCHANGED <<fitVars, workerVars, batchVars>>

CodecNext ==
    \/ CodecSave
    \/ CodecTruncate
    \/ CodecExtend
    \/ CodecLoad

-----------------------------------------------------------------------------
(* The fitter.  A mask is held as the list of external contours that        *)
(* cv2.findContours yields for it, each a list of <<x, y>> points.          *)

Abs(n) == IF n < 0 THEN -n ELSE n

\* The sum of Green's formula over the closed polygon c:
\* x[i] * y[i+1] - x[i+1] * y[i], the point after the last being the first.
Shoelace(c) ==
    LET term(i) ==
            LET p == c[i]
                q == c[IF i = Len(c) THEN 1 ELSE i + 1]
            IN  p[1] * q[2] - q[1] * p[2]
        sum[i \in 0..Len(c)] == IF i = 0 THEN 0 ELSE sum[i - 1] + term(i)
    IN  sum[Len(c)]

\* cv2.contourArea (Green's formula, unsigned), in half pixels: the value
\* is twice the area, which orders contours as the area does.
contourArea(c) == Abs(Shoelace(c))

cDot    == << <<1, 1>> >>
cLine   == << <<0, 0>>, <<6, 0>> >>
cRect   == << <<0, 0>>, <<0, 8>>, <<8, 8>>, <<8, 0>> >>
cPent   == << <<1, 0>>, <<0, 2>>, <<1, 4>>, <<3, 3>>, <<3, 1>> >>
cOct    == << <<2, 0>>, <<0, 2>>, <<0, 4>>, <<2, 6>>, <<4, 6>>, <<6, 4>>, <<6, 2>>, <<4, 0>> >>
cOctFar == << <<12, 10>>, <<10, 12>>, <<10, 14>>, <<12, 16>>, <<14, 16>>, <<16, 14>>,
              <<16, 12>>, <<14, 10>> >>

SampleContours == {cDot, cLine, cRect, cPent, cOct, cOctFar}

SeqsUpTo(S, len) == UNION {[1..k -> S] : k \in 0..len}

\* A faulty variant of PyMaxIndex: a later element of equal key replaces the best.
PyMaxIndexLast(contours) ==
    LET best[i \in 1..Len(contours)] ==
            IF i = 1 THEN 1
            ELSE IF contourArea(contours[i]) >= contourArea(contours[best[i - 1]])
                 THEN i
                 ELSE best[i - 1]
    IN  best[Len(contours)]

\* max(contours, key=cv2.contourArea), as an index into a list that is not
\* empty: Python's max walks the list and replaces its best only by an
\* element of strictly greater key.
PyMaxIndex(contours) ==
    LET best[i \in 1..Len(contours)] ==
            IF i = 1 THEN 1
            ELSE IF contourArea(contours[i]) > contourArea(contours[best[i - 1]])
                 THEN i
                 ELSE best[i - 1]
    IN  best[Len(contours)]

Min(S) == CHOOSE x \in S : \A y \in S : x <= y
Max(S) == CHOOSE x \in S : \A y \in S : x >= y

\* The position of the highest bit of k >= 1 (k < 2^24).
Log2(k) == CHOOSE e \in 0..23 : 2^e <= k /\ k < 2^(e + 1)

Pow2(k) == 2^k

\* float(h / 2) for an integer h >= 0, as a single precision value.
F32OfHalves(h) ==
    IF h = 0 THEN Zero
    ELSE With(Log2(h), LAMBDA k : F32(0, 126 + k, (h - Pow2(k)) * Pow2(23 - k)))

\* cv2.fitEllipse, an OpenCV routine: stood for by the ellipse of the
\* contour's bounding box (centre, full extents, angle 0).  What matters to
\* the callers is that the result is five floats fixed by the contour.
fitEllipse(c) ==
    LET xs == {c[i][1] : i \in 1..Len(c)}
        ys == {c[i][2] : i \in 1..Len(c)}
    IN  With(<<Min(xs), Max(xs), Min(ys), Max(ys)>>,
             LAMBDA box : << With(box[1] + box[2], F32OfHalves),
                             With(box[3] + box[4], F32OfHalves),
                             With(2 * (box[2] - box[1]), F32OfHalves),
                             With(2 * (box[4] - box[3]), F32OfHalves),
                             Zero >>)

\* The fewest points cv2.fitEllipse accepts.
MinPoints == 5

\* A faulty variant of fit_ellipse: a contour of too few points is passed over for
\* the first contour that has enough.
fit_ellipse_fallback(contours) ==
    IF contours = <<>>
    THEN [ok |-> FALSE, exc |-> "ValueError", msg |-> "No contour found in mask."]
    ELSE With(PyMaxIndex(contours), LAMBDA sel :
            IF Len(contours[sel]) >= MinPoints
            THEN [ok |-> TRUE, sel |-> sel, val |-> With(contours[sel], fitEllipse)]
            ELSE With({i \in 1..Len(contours) : Len(contours[i]) >= MinPoints}, LAMBDA enough :
                    IF enough # {}
                    THEN [ok |-> TRUE, sel |-> Min(enough),
                          val |-> With(contours[Min(enough)], fitEllipse)]
                    ELSE [ok |-> FALSE, sel |-> sel, exc |-> "ValueError",
                          msg |-> "Not enough contour points to fit an ellipse (need >= 5)."]))

\* fit_ellipse: (cx, cy, major, minor, angle), or the ValueError it raises.
\* `sel` records which contour max() selected.
fit_ellipse(contours) ==
    IF contours = <<>>
    THEN [ok |-> FALSE, exc |-> "ValueError", msg |-> "No contour found in mask."]
    ELSE With(PyMaxIndex(contours), LAMBDA largest :
            IF Len(contours[largest]) < MinPoints
            THEN [ok |-> FALSE, sel |-> largest, exc |-> "ValueError",
                  msg |-> "Not enough contour points to fit an ellipse (need >= 5)."]
            ELSE [ok |-> TRUE, sel |-> largest,
                  val |-> With(contours[largest], fitEllipse)])

-----------------------------------------------------------------------------
(* FitSpec: fit_ellipse is called on every contour list of the bounds.      *)

FitInit ==
    /\ fpc = "start"
    /\ fcontours \in SeqsUpTo(SampleContours, MaxContours)
    /\ fresult = "none"

FitIdle ==
    /\ fpc = "off"
    /\ fcontours = <<>>
    /\ fresult = "none"

FitCall ==
    /\ fpc = "start"
    /\ fresult' = fit_ellipse(fcontours)
    /\ fpc' = "called"
    /\ UNCHANGED fcontours
    /\ UNCHANGED <<codecVars, workerVars, batchVars>>

FitNext == FitCall


-----------------------------------------------------------------------------
(* The extraction worker.                                                   *)
(*                                                                          *)
(* An input says what the item's paths hold: whether cv2.imread decodes the *)
(* image, what the skin mask file is ("absent", "unreadable", or the list   *)
(* of contours of the decoded mask), and which call into the system fails   *)
(* for this item ("none"; "resize": cv2.resize raises cv2.error; "save":    *)
(* open() of the record raises OSError; "maskdir" / "overlaydir":           *)
(* os.makedirs of oval_masks/ or overlays/ raises OSError).                 *)

\* A result of None, and what stands where a file does not exist.
None == [isNone |-> TRUE]
NoFile == [exists |-> FALSE]
File(content) == [exists |-> TRUE, content |-> content]
Absent == [kind |-> "absent"]
Unreadable == [kind |-> "unreadable"]
Mask(contours) == [kind |-> "mask", contours |-> contours]

ImageStates == {"unreadable", "ok"}
Faults == {"none", "resize", "save", "maskdir", "overlaydir"}

mEmpty    == <<>>                   \* an all-zero mask
mRectPent == <<cPent, cRect>>       \* the largest region is a 4-point rectangle
mOct      == <<cOct>>
mTwo      == <<cPent, cOctFar>>

SampleMasks == {mEmpty, mRectPent, mOct, mTwo}
MaskStates == {Absent, Unreadable} \cup {Mask(m) : m \in SampleMasks}

Input(image, mask, fault) == [image |-> image, mask |-> mask, fault |-> fault]

AllInputs == {Input(i, m, f) : i \in ImageStates, m \in MaskStates, f \in Faults}

Item(idx, save_mask, save_overlay) ==
    [idx |-> idx, save_mask |-> save_mask, save_overlay |-> save_overlay]

\* The decimal digits of k >= 0, most significant first.
Digits(k) ==
    LET width == CHOOSE w \in 1..10 : (w = 10 \/ k < 10^w) /\ (w = 1 \/ k >= 10^(w - 1))
    IN  [i \in 1..width |-> (k \div 10^(width - i)) % 10]

\* f"{idx:05d}": the decimal digits of idx, zero-padded to five.
Fmt05d(idx) ==
    LET d == Digits(idx)
    IN  IF Len(d) >= 5 THEN d ELSE [i \in 1..(5 - Len(d)) |-> 0] \o d

\* A faulty variant of annotation_path: the number of the index's folder of ten
\* names the file, not the index.
annotation_path_by_folder(idx) == <<"bin", Fmt05d(idx \div 10)>>

\* annotation_path: f"{annotation_dir}/{idx:05d}.bin"
annotation_path(idx) == <<"bin", Fmt05d(idx)>>

\* build_face_mask: the mask, or the error it raises.
build_face_mask(input) ==
    IF input.mask.kind = "absent" THEN [ok |-> FALSE, exc |-> "FileNotFoundError"]
    ELSE IF input.mask.kind = "unreadable" THEN [ok |-> FALSE, exc |-> "OSError"]
    ELSE IF input.fault = "resize" THEN [ok |-> FALSE, exc |-> "cv2.error"]
    ELSE [ok |-> TRUE, mask |-> input.mask.contours]

\* except (FileNotFoundError, ValueError, IOError): IOError is OSError, and
\* FileNotFoundError is one of its subclasses.
Caught(exc) == exc \in {"FileNotFoundError", "ValueError", "OSError"}

\* int(round(x)) of a single precision x >= 0 that is a whole number or a half.
IntRound(v) ==
    IF v.e < 127 THEN 0
    ELSE LET twice == (8388608 + v.f) \div Pow2(149 - v.e)
         IN  IF twice % 2 = 0 THEN twice \div 2
             ELSE IF (twice \div 2) % 2 = 0 THEN twice \div 2 ELSE twice \div 2 + 1

\* x / 2 of a single precision x (normal numbers and zero).
HalfOf(v) == IF v.e = 0 THEN v ELSE F32(v.s, v.e - 1, v.f)

\* np.sum(ellipse_mask > 0) of the filled ellipse cv2.ellipse draws with the
\* semi-axes int(round(major / 2)), int(round(minor / 2)): stood for by the
\* pixels of the box of those semi-axes.
NumPixels(major, minor) ==
    (2 * IntRound(HalfOf(major)) + 1) * (2 * IntRound(HalfOf(minor)) + 1)

Returned(idx, result, writes, arts) ==
    [raised |-> FALSE, exc |-> "none", ret |-> <<idx, result>>,
     writes |-> writes, arts |-> arts]

\* What stands for the outcome of a call that has not finished.
NoOutcome == [raised |-> FALSE, exc |-> "none", ret |-> <<>>, writes |-> {}, arts |-> {}]

Raised(exc, writes, arts) ==
    [raised |-> TRUE, exc |-> exc, ret |-> <<>>, writes |-> writes, arts |-> arts]

\* extract_worker after a successful fit: the record is saved, the pixels
\* are counted, the optional artifacts are written, the info dict is returned.
AfterFit(item, input, fit) ==
    LET idx == item.idx
        image_id == Fmt05d(idx)
        ellipse_params == DictZip(ELLIPSE_KEYS, fit.val)
        bin_path == annotation_path(idx)
        maskArt == IF item.save_mask THEN {<<"oval_masks", image_id>>} ELSE {}
        overlayArt == IF item.save_overlay THEN {<<"overlays", image_id>>} ELSE {}
    IN  With(<<{<<bin_path, save_ellipse(ellipse_params)>>},
               [isNone |-> FALSE, ellipse |-> ellipse_params,
                num_pixels |-> NumPixels(fit.val[3], fit.val[4])]>>,
             LAMBDA ri :
                \* ri[1]: the record file written; ri[2]: the info dict
                IF input.fault = "save" THEN Raised("OSError", {}, {})
                ELSE IF item.save_mask /\ input.fault = "maskdir"
                THEN Raised("OSError", ri[1], {})
                ELSE IF item.save_overlay /\ input.fault = "overlaydir"
                THEN Raised("OSError", ri[1], maskArt)
                ELSE Returned(idx, ri[2], ri[1], maskArt \cup overlayArt))

\* extract_worker: what it returns or raises, the record it wrote (`writes`:
\* path and bytes) and the artifact paths it wrote.
extract_worker(item, input) ==
    IF input.image # "ok" THEN Returned(item.idx, None, {}, {})
    ELSE With(build_face_mask(input), LAMBDA m :
            With(IF m.ok THEN fit_ellipse(m.mask) ELSE m, LAMBDA fit :
                IF ~fit.ok
                THEN IF Caught(fit.exc) THEN Returned(item.idx, None, {}, {})
                     ELSE Raised(fit.exc, {}, {})
                ELSE AfterFit(item, input, fit)))

-----------------------------------------------------------------------------
(* WorkerSpec: one call of extract_worker on every item and input.          *)

\* Image indices of the dataset are 0 .. MaxIndex - 1.
MaxIndex == 2

Indices == 0..(MaxIndex - 1)

WorkerInit ==
    /\ wpc = "start"
    /\ witem \in {Item(i, sm, so) : i \in Indices, sm \in BOOLEAN, so \in BOOLEAN}
    /\ winput \in AllInputs
    /\ wresult = "none"

WorkerIdle ==
    /\ wpc = "off"
    /\ witem = "none"
    /\ winput = "none"
    /\ wresult = "none"

WorkerCall ==
    /\ wpc = "start"
    /\ wresult' = extract_worker(witem, winput)
    /\ wpc' = "called"
    /\ UNCHANGED <<witem, winput>>
    /\ UNCHANGED <<codecVars, fitVars, batchVars>>

-----------------------------------------------------------------------------
(* cmd_extract and run_parallel.                                            *)

\* cmd_extract runs in one behaviour.
MaxRuns == 2
\* The largest pool (n_workers).
MaxWorkers == 2

\* The inputs the dataset of the batch model draws from: an unreadable
\* image, a good item, a good item whose oval_masks/ directory cannot be
\* made, and a mask whose largest region is a rectangle of four points.
BatchInputs ==
    { Input("unreadable", Mask(mOct), "none"),
      Input("ok", Mask(mOct), "none"),
      Input("ok", Mask(mTwo), "maskdir"),
      Input("ok", Mask(mRectPent), "none") }

\* The inputs of the dataset on which cmd_extract runs several times.
RunsInputs ==
    { Input("unreadable", Mask(mOct), "none"),
      Input("ok", Mask(mOct), "none") }

\* The work list of cmd_extract: one item per idx in range(start, end).
WorkList(start, end, save_masks, save_overlays) ==
    [k \in 1..(end - start) |-> Item(start + k - 1, save_masks, save_overlays)]

\* A faulty variant of FutureToItem: the last item is never submitted.
FutureToItemDropLast(work_items) ==
    [f \in 1..(Len(work_items) - 1) |-> work_items[f]]

\* {pool.submit(worker_fn, item): item for item in work_items}
FutureToItem(work_items) ==
    [f \in 1..Len(work_items) |-> work_items[f]]

\* A faulty variant of Collect: the `if result is None` test is missing.
CollectNoNoneTest(item, out, res, fail) ==
    IF out.raised THEN [results |-> res, failed |-> Append(fail, item)]
    ELSE [results |-> Append(res, out.ret), failed |-> fail]

\* The body of run_parallel's loop for one completed future: future.result()
\* re-raises what the worker raised; a None result and a raised error both
\* put the item on the failed list.
Collect(item, out, res, fail) ==
    IF out.raised THEN [results |-> res, failed |-> Append(fail, item)]
    ELSE IF out.ret[2] = None THEN [results |-> res, failed |-> Append(fail, item)]
    ELSE [results |-> Append(res, out.ret), failed |-> fail]

\* A faulty variant of FailedIndices: the position in the failed list, not item[0].
FailedPositions(fail) == [i \in 1..Len(fail) |-> i - 1]

\* failed_indices = [item[0] for item in failed]
FailedIndices(fail) == [i \in 1..Len(fail) |-> fail[i].idx]

\* A faulty variant of FailLog: failed.json is written after every run.
FailLogEveryRun(fail, old) == File(FailedIndices(fail))

\* `if failed:` json.dump(failed_indices) into failed.json; otherwise the
\* file is not opened, and whatever an earlier run left stays.
FailLog(fail, old) == IF fail # <<>> THEN File(FailedIndices(fail)) ELSE old

\* open(path, "wb") and write: the file at path holds exactly these bytes.
WriteFiles(fs, writes) ==
    {e \in fs : \A w \in writes : w[1] # e[1]} \cup writes

NoConfig ==
    [start |-> 0, end |-> 0, save_masks |-> FALSE, save_overlays |-> FALSE, workers |-> 1]

\* Nothing has run yet: the output directory is empty.
NoRunYet ==
    /\ pc = "idle"
    /\ runs = 0
    /\ cfg = NoConfig
    /\ work = <<>>
    /\ future_to_item = <<>>
    /\ futures = <<>>
    /\ consumed = {}
    /\ progress = 0
    /\ results = <<>>
    /\ failed = <<>>
    /\ files = {}
    /\ artifacts = {}
    /\ failedJson = NoFile
    /\ executed = <<>>
    /\ writers = {}
    /\ history = <<>>

BatchInit ==
    /\ inputs \in [Indices -> BatchInputs]
    /\ NoRunYet

\* The dataset of the runs that follow one another: every image is either
\* unreadable or a good item.
RunsInit ==
    /\ inputs \in [Indices -> RunsInputs]
    /\ NoRunYet

BatchIdle ==
    /\ inputs = "none"
    /\ pc = "off"
    /\ runs = 0
    /\ cfg = NoConfig
    /\ work = <<>>
    /\ future_to_item = <<>>
    /\ futures = <<>>
    /\ consumed = {}
    /\ progress = 0
    /\ results = <<>>
    /\ failed = <<>>
    /\ files = {}
    /\ artifacts = {}
    /\ failedJson = NoFile
    /\ executed = <<>>
    /\ writers = {}
    /\ history = <<>>

\* cmd_extract up to the loop of run_parallel: the work list is built and
\* every item is submitted to the pool.
StartRunOf(Flags) ==
    /\ \E start \in 0..MaxIndex, end \in 0..MaxIndex, sm \in Flags, so \in Flags,
          nw \in 1..MaxWorkers :
        /\ start <= end
        /\ cfg' = [start |-> start, end |-> end, save_masks |-> sm,
                   save_overlays |-> so, workers |-> nw]
        /\ work' = WorkList(start, end, sm, so)
    /\ future_to_item' = FutureToItem(work')
    /\ futures' = [f \in DOMAIN future_to_item' |-> [state |-> "pending", out |-> NoOutcome]]
    /\ executed' = [f \in DOMAIN future_to_item' |-> 0]
    /\ consumed' = {}
    /\ progress' = 0
    /\ results' = <<>>
    /\ failed' = <<>>
    /\ writers' = {}
    /\ runs' = runs + 1
    /\ pc' = "running"
    /\ UNCHANGED <<inputs, diskVars, history>>
    /\ UNCHANGED <<codecVars, fitVars, workerVars>>

\* A run with any save_masks / save_overlays.
StartRun == StartRunOf(BOOLEAN)

\* The first run of cmd_extract.
CmdExtractStart ==
    /\ pc = "idle"
    /\ StartRun

\* The first of several runs of cmd_extract, without the optional artifacts.
CmdExtractFirst ==
    /\ pc = "idle"
    /\ StartRunOf({FALSE})

\* A further run of cmd_extract on the same directories.
CmdExtractAgain ==
    /\ pc = "done"
    /\ runs < MaxRuns
    /\ StartRunOf({FALSE})

Running == {f \in DOMAIN futures : futures[f].state = "running"}

\* A free process of the pool takes a pending item.
WorkerStart ==
    /\ pc = "running"
    /\ Cardinality(Running) < cfg.workers
    /\ \E f \in DOMAIN futures :
        /\ futures[f].state = "pending"
        /\ futures' = [futures EXCEPT ![f].state = "running"]
        /\ executed' = [executed EXCEPT ![f] = @ + 1]
    /\ UNCHANGED <<inputs, pc, runs, cfg, work, future_to_item, consumed, progress, results, failed>>
    /\ UNCHANGED <<diskVars, writers, history>>
    /\ UNCHANGED <<codecVars, fitVars, workerVars>>

\* The process runs extract_worker on its item to the end.
WorkerFinish ==
    /\ pc = "running"
    /\ \E f \in DOMAIN futures :
        /\ futures[f].state = "running"
        /\ \E out \in {extract_worker(future_to_item[f], inputs[future_to_item[f].idx])} :
               /\ futures' = [futures EXCEPT ![f] = [state |-> "done", out |-> out]]
               /\ files' = WriteFiles(files, out.writes)
               /\ artifacts' = artifacts \cup out.arts
               /\ writers' = writers \cup {<<w[1], f>> : w \in out.writes}
                                     \cup {<<a, f>> : a \in out.arts}
    /\ UNCHANGED <<inputs, pc, runs, cfg, work, future_to_item, consumed, progress, results, failed>>
    /\ UNCHANGED <<failedJson, executed, history>>
    /\ UNCHANGED <<codecVars, fitVars, workerVars>>

\* as_completed yields a finished future and the loop body classifies it.
Consume ==
    /\ pc = "running"
    /\ \E f \in DOMAIN futures \ consumed :
        /\ futures[f].state = "done"
        /\ LET c == Collect(future_to_item[f], futures[f].out, results, failed)
           IN  /\ results' = c.results
               /\ failed' = c.failed
        /\ consumed' = consumed \cup {f}
        /\ progress' = progress + 1
    /\ UNCHANGED <<inputs, pc, runs, cfg, work, future_to_item, futures>>
    /\ UNCHANGED <<diskVars, histVars, history>>
    /\ UNCHANGED <<codecVars, fitVars, workerVars>>

\* as_completed is exhausted, the pool is shut down, run_parallel returns.
Return ==
    /\ pc = "running"
    /\ consumed = DOMAIN future_to_item
    /\ pc' = "returned"
    /\ UNCHANGED <<inputs, runs, cfg, work, future_to_item, futures, consumed, progress, results, failed>>
    /\ UNCHANGED <<diskVars, histVars, history>>
    /\ UNCHANGED <<codecVars, fitVars, workerVars>>

\* cmd_extract after run_parallel: the summary, and failed.json if any item failed.
CmdExtractFinish ==
    /\ pc = "returned"
    /\ failedJson' = FailLog(failed, failedJson)
    /\ history' = Append(history, FailedIndices(failed))
    /\ pc' = "done"
    /\ UNCHANGED <<inputs, runs, cfg, work, future_to_item, futures, consumed, progress, results, failed>>
    /\ UNCHANGED <<files, artifacts, histVars>>
    /\ UNCHANGED <<codecVars, fitVars, workerVars>>

-----------------------------------------------------------------------------
(* The specifications. *)

CodecSpecInit == CodecInit /\ FitIdle /\ WorkerIdle /\ BatchIdle
CodecSpec == CodecSpecInit /\ [][CodecNext]_vars

FitSpecInit == FitInit /\ CodecIdle /\ WorkerIdle /\ BatchIdle
FitSpec == FitSpecInit /\ [][FitNext]_vars

WorkerSpecInit == WorkerInit /\ CodecIdle /\ FitIdle /\ BatchIdle
WorkerNext == WorkerCall
WorkerSpec == WorkerSpecInit /\ [][WorkerNext]_vars

Init == BatchInit /\ CodecIdle /\ FitIdle /\ WorkerIdle

Next ==
    \/ CmdExtractStart
    \/ WorkerStart
    \/ WorkerFinish
    \/ Consume
    \/ Return
    \/ CmdExtractFinish

Spec == Init /\ [][Next]_vars

\* Several runs of cmd_extract, one after the other, on the same directories.
RunsSpecInit == RunsInit /\ CodecIdle /\ FitIdle /\ WorkerIdle

RunsNext ==
    \/ CmdExtractFirst
    \/ CmdExtractAgain
    \/ WorkerStart
    \/ WorkerFinish
    \/ Consume
    \/ Return
    \/ CmdExtractFinish

RunsSpec == RunsSpecInit /\ [][RunsNext]_vars

\* The pool runs every submitted item to its end and the loop of
\* run_parallel consumes every completion; nobody has to start another run.
FairSpec ==
    /\ Spec
    /\ WF_vars(WorkerStart)
    /\ WF_vars(WorkerFinish)
    /\ WF_vars(Consume)
    /\ WF_vars(Return)


-----------------------------------------------------------------------------
(* Properties. *)

Range(seq) == {seq[i] : i \in 1..Len(seq)}

NoDuplicates(seq) == \A i, j \in 1..Len(seq) : seq[i] = seq[j] => i = j

\* The worker call of future f completed without raising and returned a
\* result that is not None.
Succeeded(f) == ~futures[f].out.raised /\ futures[f].out.ret[2] # None

\* C1: when run_parallel returns, an item has an entry (idx, result) in the
\* results list if and only if its worker call returned without raising and
\* with a result that is not None; every other item is in the failed list as
\* the item that was submitted; every item is in exactly one of the two
\* lists, once, so the lengths of the lists add up to the number of items.
C1_Classification ==
    pc \in {"returned", "done"} =>
        /\ \A f \in DOMAIN future_to_item :
              LET item == future_to_item[f]
              IN  /\ Succeeded(f) <=>
                        \E k \in 1..Len(results) : results[k][1] = item.idx
                  /\ Succeeded(f) =>
                        \E k \in 1..Len(results) : results[k] = futures[f].out.ret
                  /\ ~Succeeded(f) <=> item \in Range(failed)
        /\ NoDuplicates(results)
        /\ NoDuplicates(failed)
        /\ Range(failed) \subseteq Range(work)
        /\ Len(results) + Len(failed) = Len(work)

\* A run returned in which one worker raised and another succeeded.
C1_Witness ==
    /\ pc = "returned"
    /\ \E f, g \in DOMAIN futures :
          /\ futures[f].out.raised
          /\ Succeeded(g)
    /\ Len(results) = 1
    /\ Len(failed) = 1

\* C2 (as claimed): for every item of the failed list, the worker call of
\* that item wrote no record file.
C2_NoRecordForFailedItem ==
    pc \in {"returned", "done"} =>
        \A f \in DOMAIN future_to_item :
            future_to_item[f] \in Range(failed) =>
                /\ futures[f].out.writes = {}
                /\ \A w \in writers : w[1] = annotation_path(future_to_item[f].idx) => w[2] # f

\* C3 (as claimed): a call of extract_worker never raises; whenever the
\* image, the mask loader, the fitter or the codec fails, it returns
\* (idx, None).
C3_NeverRaises ==
    wpc = "called" =>
        /\ ~wresult.raised
        /\ (\/ winput.image # "ok"
            \/ ~build_face_mask(winput).ok
            \/ ~fit_ellipse(winput.mask.contours).ok
            \/ winput.fault = "save")
              => wresult.ret = <<witem.idx, None>>

AllDone ==
    /\ consumed = DOMAIN future_to_item
    /\ progress = Len(work)
    /\ \A f \in DOMAIN future_to_item :
          /\ futures[f].state = "done"
          /\ executed[f] = 1

\* Every item of the work list belongs to exactly one future, no future is
\* started twice, and the counter of consumed completions is the number of
\* futures consumed.
SubmittedOnce ==
    /\ \A k \in 1..Len(work) :
          Cardinality({f \in DOMAIN future_to_item : future_to_item[f] = work[k]}) = 1
    /\ Len(future_to_item) = Len(work)
    /\ \A f \in DOMAIN future_to_item : executed[f] <= 1
    /\ progress = Cardinality(consumed)
    /\ progress <= Len(work)

\* C4: run_parallel submits every item exactly once and runs none twice; it
\* returns only when every submitted item has completed and been consumed;
\* the counter of consumed completions starts at 0, never decreases, moves
\* by one and is len(work_items) at return; and, the pool and the loop being
\* fair, a started run_parallel returns, whatever its items do.
C4_SubmitOnceAndReturn ==
    /\ [](pc # "idle" => SubmittedOnce)
    /\ [](pc \in {"returned", "done"} => AllDone)
    /\ [][progress' = progress \/ progress' = progress + 1]_vars
    /\ [][pc = "idle" /\ pc' = "running" => progress' = 0]_vars
    /\ (pc = "running") ~> (pc = "returned")

\* A run returned although its first item raised: the second was executed
\* and classified all the same.
C4_Witness ==
    /\ pc = "returned"
    /\ Len(work) = 2
    /\ futures[1].out.raised
    /\ executed[2] = 1
    /\ 2 \in consumed
    /\ progress = 2

\* C5 (as claimed): load_ellipse succeeds exactly on files of 20 bytes.
C5_RejectsOtherLengths ==
    cpc \in {"loaded", "loaded_other"} =>
        (cloaded.ok <=> Len(cfile) = 20)

\* The bytes of the sample values, most significant first (IEEE-754).
KnownBytes(v) ==
    IF v = Zero THEN <<0, 0, 0, 0>>
    ELSE IF v = NegDeg90 THEN <<194, 180, 0, 0>>
    ELSE IF v = Px256_5 THEN <<67, 128, 64, 0>>
    ELSE <<63, 0, 0, 0>>

\* C6: loading what save_ellipse wrote gives a dict of exactly the five
\* keys, each with the value the saved descriptor had under that key; the
\* record is 20 bytes: center_x, center_y, major_axis, minor_axis,
\* rotation_angle, four bytes each, most significant byte first.
C6_RoundTrip ==
    cpc = "loaded" =>
        /\ cloaded.ok
        /\ DOMAIN cloaded.dict =
              {"center_x", "center_y", "major_axis", "minor_axis", "rotation_angle"}
        /\ \A k \in DOMAIN cloaded.dict : cloaded.dict[k] = cdesc[k]
        /\ Len(cfile) = 20
        /\ SubSeq(cfile, 1, 4) = KnownBytes(cdesc["center_x"])
        /\ SubSeq(cfile, 5, 8) = KnownBytes(cdesc["center_y"])
        /\ SubSeq(cfile, 9, 12) = KnownBytes(cdesc["major_axis"])
        /\ SubSeq(cfile, 13, 16) = KnownBytes(cdesc["minor_axis"])
        /\ SubSeq(cfile, 17, 20) = KnownBytes(cdesc["rotation_angle"])

\* A descriptor of pairwise different axes and angle was saved and loaded.
C6_Witness ==
    /\ cpc = "loaded"
    /\ cloaded.ok
    /\ cdesc["major_axis"] = Px256_5
    /\ cdesc["minor_axis"] = Zero
    /\ cdesc["rotation_angle"] = NegDeg90
    /\ cloaded.dict["major_axis"] = Px256_5

SuccessIndices == {results[k][1] : k \in 1..Len(results)}

\* C7: after a run of cmd_extract over [start, end) in which an item failed,
\* failed.json exists and holds the indices of the items of the failed list
\* and nothing else, each once; the indices of the results and those of
\* failed.json are disjoint and together they are range(start, end).
C7_FailureLog ==
    pc = "done" /\ failed # <<>> =>
        /\ failedJson.exists
        /\ Range(failedJson.content) = {failed[k].idx : k \in 1..Len(failed)}
        /\ Len(failedJson.content) = Len(failed)
        /\ NoDuplicates(failedJson.content)
        /\ Range(failedJson.content) \subseteq Int
        /\ SuccessIndices \cap Range(failedJson.content) = {}
        /\ SuccessIndices \cup Range(failedJson.content) = cfg.start..(cfg.end - 1)

\* A run over [0, 2) ended with item 0 succeeded and item 1 failed:
\* failed.json holds the index 1, not its position in the failed list.
C7_Witness ==
    /\ pc = "done"
    /\ cfg.start = 0
    /\ cfg.end = 2
    /\ SuccessIndices = {0}
    /\ Len(failed) = 1
    /\ failedJson = File(<<1>>)

\* What the worker does on index i under the configuration of the run: a
\* function of the inputs of i alone.
Expected(i) == extract_worker(Item(i, cfg.save_masks, cfg.save_overlays), inputs[i])

ExpectedSuccess(i) == ~Expected(i).raised /\ Expected(i).ret[2] # None

RunIndices == cfg.start..(cfg.end - 1)

\* C8: whatever the order in which the workers complete and are consumed,
\* the run ends with the same successes, the same failures and the same
\* record files, each fixed by the inputs of its own index; and no path is
\* written by two worker calls.
C8_OrderIndependent ==
    /\ pc # "idle" =>
          \A w1, w2 \in writers : w1[1] = w2[1] => w1[2] = w2[2]
    /\ pc \in {"returned", "done"} =>
          /\ Range(results) = {Expected(i).ret : i \in {j \in RunIndices : ExpectedSuccess(j)}}
          /\ Range(failed) =
                {Item(i, cfg.save_masks, cfg.save_overlays) :
                    i \in {j \in RunIndices : ~ExpectedSuccess(j)}}
          /\ files = UNION {Expected(i).writes : i \in RunIndices}
          /\ \A i \in RunIndices : \A w \in Expected(i).writes :
                /\ w[1] = <<"bin", Fmt05d(i)>>
                /\ w \in files

\* Two items succeeded and were consumed in the reverse of the order of
\* submission, each with its record on disk.
C8_Witness ==
    /\ pc = "returned"
    /\ Len(results) = 2
    /\ results[1][1] > results[2][1]
    /\ Cardinality(files) = 2

\* C9: when the mask has contours, the contour fit_ellipse selects has an
\* area no other contour exceeds, and every contour before it in the list
\* has a strictly smaller area: of several largest ones it is the first.
C9_FirstLargest ==
    fpc = "called" /\ fcontours # <<>> =>
        /\ fresult.sel \in 1..Len(fcontours)
        /\ \A j \in 1..Len(fcontours) :
              contourArea(fcontours[j]) <= contourArea(fcontours[fresult.sel])
        /\ \A j \in 1..(fresult.sel - 1) :
              contourArea(fcontours[j]) < contourArea(fcontours[fresult.sel])

\* Two contours of the same largest area: the earlier one was selected.
C9_Witness ==
    /\ fpc = "called"
    /\ Len(fcontours) = 3
    /\ contourArea(fcontours[2]) = contourArea(fcontours[3])
    /\ contourArea(fcontours[1]) < contourArea(fcontours[2])
    /\ fcontours[2] # fcontours[3]
    /\ fresult.sel = 2

\* The first contour of the largest area, stated without the walk of max().
FirstLargest(contours) ==
    CHOOSE i \in 1..Len(contours) :
        /\ \A j \in 1..Len(contours) : contourArea(contours[j]) <= contourArea(contours[i])
        /\ \A j \in 1..(i - 1) : contourArea(contours[j]) < contourArea(contours[i])

NoContourError(r) == ~r.ok /\ r.exc = "ValueError" /\ r.msg = "No contour found in mask."

DegenerateError(r) ==
    /\ ~r.ok
    /\ r.exc = "ValueError"
    /\ r.msg = "Not enough contour points to fit an ellipse (need >= 5)."

\* C10: fit_ellipse raises the no-contour error exactly when the mask has no
\* contour; otherwise it raises the degenerate-contour error exactly when
\* the first contour of the largest area has fewer than 5 points, whatever
\* the other contours are; otherwise it returns five values, the fit of that
\* contour.
C10_ErrorOrder ==
    fpc = "called" =>
        /\ NoContourError(fresult) <=> fcontours = <<>>
        /\ fcontours # <<>> =>
              LET largest == fcontours[FirstLargest(fcontours)]
              IN  /\ DegenerateError(fresult) <=> Len(largest) < 5
                  /\ Len(largest) >= 5 =>
                        /\ fresult.ok
                        /\ Len(fresult.val) = 5
                        /\ fresult.val = fitEllipse(largest)

\* The largest contour has four points and a smaller one has five: the call
\* failed with the degenerate-contour error.
C10_Witness ==
    /\ fpc = "called"
    /\ fcontours # <<>>
    /\ Len(fcontours[FirstLargest(fcontours)]) < 5
    /\ \E j \in 1..Len(fcontours) : Len(fcontours[j]) >= 5
    /\ DegenerateError(fresult)

-----------------------------------------------------------------------------
(* failed.json over several runs (RunsSpec). *)

\* The finished runs in which at least one item failed.
FailingRuns == {k \in 1..Len(history) : history[k] # <<>>}

\* What the most recent finished run with a failure logged; no file when no
\* finished run had a failure.
LastFailureLog ==
    IF FailingRuns = {} THEN NoFile
    ELSE File(history[CHOOSE k \in FailingRuns : \A j \in FailingRuns : j <= k])

\* C11: the step that ends a run in which no item failed leaves failed.json
\* as it was (absent if absent, the same content otherwise), and no other
\* step but the end of a run touches it; so at every moment failed.json holds
\* the failed indices of the most recent finished run that had at least one
\* failure, and does not exist when no finished run had one.
C11_FailedJsonKept ==
    /\ [](failedJson = LastFailureLog)
    /\ [][pc = "returned" /\ failed = <<>> => failedJson' = failedJson]_vars
    /\ [][pc # "returned" => failedJson' = failedJson]_vars

\* Two runs have finished: the first had a failure, the second had none, and
\* failed.json still holds the indices the first run logged.
C11_Witness ==
    /\ pc = "done"
    /\ Len(history) = 2
    /\ history[1] # <<>>
    /\ history[2] = <<>>
    /\ failed = <<>>
    /\ cfg.start < cfg.end
    /\ failedJson = File(history[1])

====
